---------------------------- MODULE Spec2Model ----------------------------
(***************************************************************************)
(* Model of backend/server.js (Kingtech School API): the student, teacher, *)
(* class and announcement collections, the route handlers that write them, *)
(* and the announcement e-mail dispatcher.                                 *)
(*                                                                         *)
(* Four specifications of the same handlers are given:                     *)
(*   Spec      every handler runs from its first store access to its       *)
(*             response without interleaving (one request at a time);      *)
(*   ConcSpec  teacher requests are suspended at every await (findById,    *)
(*             findOne, save) and other requests run in between;           *)
(*   InitSpec  class requests, the initializer suspended at every await;   *)
(*   AnnSpec   announcement creation and the detached dispatcher.          *)
(*                                                                         *)
(* The store is taken to answer every query of a route handler, and :id    *)
(* values are well-formed store ids (stored, deleted or never handed out). *)
(* Store ids are handed out in increasing order and never reused.          *)
(***************************************************************************)
EXTENDS Integers, Sequences, FiniteSets, TLC

VARIABLES
    collection,     \* the collection the explored requests address
    students,       \* Student collection: id -> document
    teachers,       \* Teacher collection: id -> document
    classes,        \* ClassModel collection: id -> document
    announcements,  \* Announcement collection: id -> document
    nextId,         \* ids the store has handed out so far, per collection
    resp,           \* the response of the last request served
    proc,           \* the requests in flight (ConcSpec, InitSpec)
    disp            \* the dispatcher runs, one per announcement (AnnSpec)

vars == <<collection, students, teachers, classes, announcements, nextId,
          resp, proc, disp>>

-----------------------------------------------------------------------------
(* Bounds of the model *)

MaxTeachers == 2        \* teacher documents ever created
MaxStudents == 1        \* student documents ever created
MaxPayments == 2        \* payments appended to one student
MaxPatchedClasses == 2  \* class ids the explored PATCH requests address
MaxAnnouncements == 2   \* announcements ever created
NumProcs == 2           \* requests in flight at the same time

-----------------------------------------------------------------------------
(* JavaScript values of a request body *)

Absent == [t |-> "undefined"]
Str(s) == [t |-> "string", s |-> s]
Num(n) == [t |-> "number", n |-> n]

\* !x is false
Truthy(v) ==
    CASE v.t = "string" -> v.s # ""
      [] v.t = "number" -> v.n # 0
      [] OTHER -> FALSE

\* typeof x === 'string', typeof x === 'number'
IsString(v) == v.t = "string"
IsNumber(v) == v.t = "number"

\* x === 'literal'
Is(v, s) == v.t = "string" /\ v.s = s

ClassTeacher == "Class Teacher"

\* The last request served and its answer: the route, its :id (for a create,
\* the id of the created document; 0 when there is none), the HTTP status,
\* the error kind, the teacher name a class-teacher conflict message carries,
\* and the class the request claimed for a class teacher ("" when the strict
\* rule is not asked).
Response(op, id, status, err, who, cls) ==
    [op |-> op, id |-> id, status |-> status, err |-> err, who |-> who,
     cls |-> cls]

NoResponse == Response("none", 0, 0, "", "", "")

\* new Model(doc).save(): the store gains the document under a fresh id
InsertDoc(store, id, doc) ==
    [i \in DOMAIN store \cup {id} |-> IF i = id THEN doc ELSE store[i]]

\* Model.findByIdAndDelete(id): a no-op when no document has the id
DeleteDoc(store, id) ==
    [i \in DOMAIN store \ {id} |-> store[i]]

\* The paths mongoose tracks as modified on a loaded document: a path set to
\* a value equal to the loaded one is not marked.
ModifiedPaths(loaded, doc) ==
    {f \in DOMAIN doc : doc[f] # loaded[f]}

\* doc.save() of a loaded document: updateOne({_id}, {$set: modified paths}).
\* Only the modified paths are written; the others keep what the store holds
\* at the time of the save.
SaveDoc(store, id, doc, mod) ==
    [store EXCEPT ![id] = [f \in DOMAIN doc |-> IF f \in mod THEN doc[f] ELSE @[f]]]


-----------------------------------------------------------------------------
(* TEACHERS *)

TeacherIds == 1..MaxTeachers

NoTeacherFields ==
    [name |-> Absent, subject |-> Absent, role |-> Absent,
     classTeacherClass |-> Absent, email |-> Absent]

\* The request bodies explored: the bodies that carry every field, and the
\* bodies that carry one field (or role and classTeacherClass) and no other.
\* Num(0) and Str("") are the values of the wrong primitive type and the
\* empty string.
FullTeacherBodies ==
    [name : {Str("Ann"), Str("Bob")},
     subject : {Str("Math")},
     role : {Str(ClassTeacher), Str("Teacher")},
     classTeacherClass : {Absent, Str("Grade 1"), Str("Grade 2")},
     email : {Str("ann@x")}]

PartialTeacherBodies ==
    {NoTeacherFields}
    \cup {[NoTeacherFields EXCEPT !.name = v] : v \in {Num(0), Str(""), Str("Ann"), Str("Bob")}}
    \cup {[NoTeacherFields EXCEPT !.subject = v] : v \in {Num(0), Str(""), Str("Math")}}
    \cup {[NoTeacherFields EXCEPT !.email = v] : v \in {Num(0), Str(""), Str("ann@x")}}
    \cup {[NoTeacherFields EXCEPT !.role = r, !.classTeacherClass = c] :
            r \in {Absent, Num(0), Str(""), Str(ClassTeacher), Str("Teacher")},
            c \in {Absent, Str(""), Str("Grade 1"), Str("Grade 2")}}

TeacherBodies == FullTeacherBodies \cup PartialTeacherBodies

\* if (!name || !subject || !role || !email)
TeacherFieldsMissing(b) ==
    ~Truthy(b.name) \/ ~Truthy(b.subject) \/ ~Truthy(b.role) \/ ~Truthy(b.email)

\* teacherSchema: the paths with required: true (a string must be non-empty)
ValidTeacher(doc) ==
    doc.name # "" /\ doc.subject # "" /\ doc.role # "" /\ doc.email # ""

\* Mutant of ClassTeachersOf: the query without its _id: {$ne: self} filter
ClassTeachersOfAnyone(store, c, self) ==
    {t \in DOMAIN store : /\ store[t].role = ClassTeacher
                          /\ store[t].classTeacherClass = c}

\* The documents Teacher.findOne({role: 'Class Teacher', classTeacherClass: c,
\* _id: {$ne: self}}) matches; a create passes no _id filter (self = 0).
ClassTeachersOf(store, c, self) ==
    {t \in DOMAIN store : /\ store[t].role = ClassTeacher
                          /\ store[t].classTeacherClass = c
                          /\ t # self}

\* Mutant of NeedsCheck: the role literal misspelt, so the rule is never asked
NeedsCheckWrongLiteral(b) ==
    Is(b.role, "class teacher") /\ Truthy(b.classTeacherClass)

\* if (role === 'Class Teacher' && classTeacherClass)
NeedsCheck(b) ==
    Is(b.role, ClassTeacher) /\ Truthy(b.classTeacherClass)

\* new Teacher({name, subject, role, email,
\*   classTeacherClass: role === 'Class Teacher' ? (classTeacherClass || '') : ''})
NewTeacher(b) ==
    [name |-> b.name.s, subject |-> b.subject.s, role |-> b.role.s,
     email |-> b.email.s,
     classTeacherClass |->
        IF Is(b.role, ClassTeacher)
        THEN (IF Truthy(b.classTeacherClass) THEN b.classTeacherClass.s ELSE "")
        ELSE ""]

\* if (typeof name === 'string') teacher.name = name; ... subject, role, email
ApplyTeacherBody(doc, b) ==
    [doc EXCEPT !.name = IF IsString(b.name) THEN b.name.s ELSE @,
                !.subject = IF IsString(b.subject) THEN b.subject.s ELSE @,
                !.role = IF IsString(b.role) THEN b.role.s ELSE @,
                !.email = IF IsString(b.email) THEN b.email.s ELSE @]

\* The STRICT rule block of the update, once the conflict query found nobody:
\* the class when role === 'Class Teacher' and classTeacherClass is truthy,
\* '' in the two else branches.
PatchedClass(b) ==
    IF Is(b.role, ClassTeacher)
    THEN (IF Truthy(b.classTeacherClass) THEN b.classTeacherClass.s ELSE "")
    ELSE ""

\* The document the update holds when it calls save()
PatchedTeacher(loaded, b) ==
    [ApplyTeacherBody(loaded, b) EXCEPT !.classTeacherClass = PatchedClass(b)]

\* The class the strict rule is asked about ("" when it is not asked)
AskedClass(b) ==
    IF NeedsCheck(b) THEN b.classTeacherClass.s ELSE ""

\* POST /api/teachers, served without interleaving
PostTeacher(b) ==
    /\ nextId.teachers < MaxTeachers
    /\ LET id == nextId.teachers + 1
           holders == ClassTeachersOf(teachers, AskedClass(b), 0)
       IN  IF TeacherFieldsMissing(b)
           THEN /\ resp' = Response("POST teacher", 0, 400, "missing", "", AskedClass(b))
                /\ UNCHANGED <<teachers, nextId>>
           ELSE IF NeedsCheck(b) /\ holders # {}
           THEN /\ \E existing \in holders :
                     resp' = Response("POST teacher", 0, 400, "conflict",
                                      teachers[existing].name, AskedClass(b))
                /\ UNCHANGED <<teachers, nextId>>
           ELSE /\ teachers' = InsertDoc(teachers, id, NewTeacher(b))
                /\ nextId' = [nextId EXCEPT !.teachers = id]
                /\ resp' = Response("POST teacher", id, 201, "", "", AskedClass(b))
    /\ UNCHANGED <<collection, students, classes, announcements, proc, disp>>

\* PATCH /api/teachers/:id, served without interleaving
PatchTeacher(t, b) ==
    /\ IF t \notin DOMAIN teachers
       THEN /\ resp' = Response("PATCH teacher", t, 404, "not found", "", AskedClass(b))
            /\ UNCHANGED teachers
       ELSE LET loaded == teachers[t]
                doc == PatchedTeacher(loaded, b)
                holders == ClassTeachersOf(teachers, AskedClass(b), t)
            IN  IF NeedsCheck(b) /\ holders # {}
                THEN /\ \E existing \in holders :
                          resp' = Response("PATCH teacher", t, 400, "conflict",
                                           teachers[existing].name, AskedClass(b))
                     /\ UNCHANGED teachers
                ELSE IF ~ValidTeacher(doc)
                THEN /\ resp' = Response("PATCH teacher", t, 500, "validation", "",
                                         AskedClass(b))
                     /\ UNCHANGED teachers
                ELSE /\ teachers' = SaveDoc(teachers, t, doc, ModifiedPaths(loaded, doc))
                     /\ resp' = Response("PATCH teacher", t, 200, "", "", AskedClass(b))
    /\ UNCHANGED <<collection, students, classes, announcements, nextId, proc, disp>>

\* Mutant of DeleteTeacher: an id no document has is answered 404
DeleteTeacherStrict(t) ==
    /\ teachers' = DeleteDoc(teachers, t)
    /\ resp' = Response("DELETE teacher", t, IF t \in DOMAIN teachers THEN 204 ELSE 404,
                        "", "", "")
    /\ UNCHANGED <<collection, students, classes, announcements, nextId, proc, disp>>

\* DELETE /api/teachers/:id
DeleteTeacher(t) ==
    /\ teachers' = DeleteDoc(teachers, t)
    /\ resp' = Response("DELETE teacher", t, 204, "", "", "")
    /\ UNCHANGED <<collection, students, classes, announcements, nextId, proc, disp>>

-----------------------------------------------------------------------------
(* STUDENTS.  A student document is kept flat: due and payments stand for  *)
(* fees.due and fees.payments.                                             *)

StudentIds == 1..MaxStudents

NoStudentFields ==
    [name |-> Absent, age |-> Absent, class |-> Absent, feesDue |-> Absent]

\* Str("x") is the value of the wrong primitive type for a number field (a
\* string the Number cast rejects).
FullStudentBodies ==
    [name : {Str("Ann"), Str("Bob")}, age : {Num(10)},
     class : {Str("Grade 1")}, feesDue : {Num(300)}]

PartialStudentBodies ==
    {NoStudentFields}
    \cup {[NoStudentFields EXCEPT !.name = v] : v \in {Num(0), Str(""), Str("Ann"), Str("Bob")}}
    \cup {[NoStudentFields EXCEPT !.age = v] : v \in {Str("x"), Num(10)}}
    \cup {[NoStudentFields EXCEPT !.class = v] : v \in {Num(0), Str(""), Str("Grade 1")}}
    \cup {[NoStudentFields EXCEPT !.feesDue = v] : v \in {Str("x"), Num(0), Num(300)}}
    \cup {[b EXCEPT !.feesDue = v] : b \in FullStudentBodies, v \in {Str("x"), Num(0)}}

StudentBodies == FullStudentBodies \cup PartialStudentBodies

PaymentBodies ==
    [amount : {Absent, Num(0), Num(50), Num(100), Str("x")},
     date : {Absent, Str(""), Str("2024-01-01")}]

\* if (!name || !age || !sclass || !feesDue)
StudentFieldsMissing(b) ==
    ~Truthy(b.name) \/ ~Truthy(b.age) \/ ~Truthy(b.class) \/ ~Truthy(b.feesDue)

\* The casts of studentSchema and paymentSchema: a Number path rejects a
\* non-numeric string (CastError, reported by save()).
CastsToNumber(v) == IsNumber(v)

\* new Student({name, age, class: sclass, fees: {due: feesDue, payments: []}})
NewStudent(b) ==
    [name |-> b.name.s, age |-> b.age.n, class |-> b.class.s,
     due |-> b.feesDue.n, payments |-> <<>>]

\* studentSchema: the string paths with required: true must be non-empty
ValidStudent(doc) ==
    doc.name # "" /\ doc.class # ""

\* if (typeof name === 'string') student.name = name; ... age, class, feesDue
ApplyStudentBody(doc, b) ==
    [doc EXCEPT !.name = IF IsString(b.name) THEN b.name.s ELSE @,
                !.age = IF IsNumber(b.age) THEN b.age.n ELSE @,
                !.class = IF IsString(b.class) THEN b.class.s ELSE @,
                !.due = IF IsNumber(b.feesDue) THEN b.feesDue.n ELSE @]

\* Mutant of PushPayment: the payment also settles fees.due
PushPaymentSettlingDue(doc, b) ==
    [doc EXCEPT !.payments = Append(@, [amount |-> b.amount.n, date |-> b.date.s]),
                !.due = @ - b.amount.n]

\* student.fees.payments.push({amount, date})
PushPayment(doc, b) ==
    [doc EXCEPT !.payments = Append(@, [amount |-> b.amount.n, date |-> b.date.s])]

\* POST /api/students
PostStudent(b) ==
    /\ nextId.students < MaxStudents
    /\ LET id == nextId.students + 1
       IN  IF StudentFieldsMissing(b)
           THEN /\ resp' = Response("POST student", 0, 400, "missing", "", "")
                /\ UNCHANGED <<students, nextId>>
           ELSE IF ~CastsToNumber(b.age) \/ ~CastsToNumber(b.feesDue)
           THEN /\ resp' = Response("POST student", 0, 500, "validation", "", "")
                /\ UNCHANGED <<students, nextId>>
           ELSE /\ students' = InsertDoc(students, id, NewStudent(b))
                /\ nextId' = [nextId EXCEPT !.students = id]
                /\ resp' = Response("POST student", id, 201, "", "", "")
    /\ UNCHANGED <<collection, teachers, classes, announcements, proc, disp>>

\* PATCH /api/students/:id
PatchStudent(s, b) ==
    /\ IF s \notin DOMAIN students
       THEN /\ resp' = Response("PATCH student", s, 404, "not found", "", "")
            /\ UNCHANGED students
       ELSE LET loaded == students[s]
                doc == ApplyStudentBody(loaded, b)
            IN  IF ~ValidStudent(doc)
                THEN /\ resp' = Response("PATCH student", s, 500, "validation", "", "")
                     /\ UNCHANGED students
                ELSE /\ students' = SaveDoc(students, s, doc, ModifiedPaths(loaded, doc))
                     /\ resp' = Response("PATCH student", s, 200, "", "", "")
    /\ UNCHANGED <<collection, teachers, classes, announcements, nextId, proc, disp>>

\* POST /api/students/:id/payments
AddPayment(s, b) ==
    /\ IF ~Truthy(b.amount) \/ ~Truthy(b.date)
       THEN /\ resp' = Response("POST payment", s, 400, "missing", "", "")
            /\ UNCHANGED students
       ELSE IF s \notin DOMAIN students
       THEN /\ resp' = Response("POST payment", s, 404, "not found", "", "")
            /\ UNCHANGED students
       ELSE IF ~CastsToNumber(b.amount)
       THEN /\ resp' = Response("POST payment", s, 500, "validation", "", "")
            /\ UNCHANGED students
       ELSE /\ Len(students[s].payments) < MaxPayments
            /\ LET loaded == students[s]
                   doc == PushPayment(loaded, b)
               IN  students' = SaveDoc(students, s, doc, ModifiedPaths(loaded, doc))
            /\ resp' = Response("POST payment", s, 200, "", "", "")
    /\ UNCHANGED <<collection, teachers, classes, announcements, nextId, proc, disp>>

\* DELETE /api/students/:id
DeleteStudent(s) ==
    /\ students' = DeleteDoc(students, s)
    /\ resp' = Response("DELETE student", s, 204, "", "", "")
    /\ UNCHANGED <<collection, teachers, classes, announcements, nextId, proc, disp>>

-----------------------------------------------------------------------------
(* CLASSES *)

\* const base = [{name: 'Grade 1'}, ..., {name: 'Grade 9'}]
BaseClasses ==
    <<"Grade 1", "Grade 2", "Grade 3", "Grade 4", "Grade 5", "Grade 6",
      "Grade 7", "Grade 8", "Grade 9">>

\* classSchema: teacher and leader default to ''
NewClass(name) == [name |-> name, teacher |-> "", leader |-> ""]

\* ClassModel.insertMany(base): one new document per entry, in order
InsertBase(store, first) ==
    [i \in DOMAIN store \cup (first + 1 .. first + Len(BaseClasses)) |->
        IF i \in DOMAIN store THEN store[i] ELSE NewClass(BaseClasses[i - first])]

\* The :id values the explored PATCH /api/classes requests address
PatchedClassIds == 1..MaxPatchedClasses

ClassBodies ==
    [teacher : {Absent, Num(0), Str(""), Str("Ann")},
     leader : {Absent, Str("Zed")}]

\* if (typeof teacher === 'string') cls.teacher = teacher; ... leader
ApplyClassBody(doc, b) ==
    [doc EXCEPT !.teacher = IF IsString(b.teacher) THEN b.teacher.s ELSE @,
                !.leader = IF IsString(b.leader) THEN b.leader.s ELSE @]

\* POST /api/classes/init, served without interleaving
InitClasses ==
    /\ IF Cardinality(DOMAIN classes) > 0
       THEN /\ resp' = Response("POST init", 0, 400, "initialized", "", "")
            /\ UNCHANGED <<classes, nextId>>
       ELSE /\ classes' = InsertBase(classes, nextId.classes)
            /\ nextId' = [nextId EXCEPT !.classes = @ + Len(BaseClasses)]
            /\ resp' = Response("POST init", 0, 201, "", "", "")
    /\ UNCHANGED <<collection, students, teachers, announcements, proc, disp>>

\* PATCH /api/classes/:id
PatchClass(c, b) ==
    /\ IF c \notin DOMAIN classes
       THEN /\ resp' = Response("PATCH class", c, 404, "not found", "", "")
            /\ UNCHANGED classes
       ELSE LET loaded == classes[c]
                doc == ApplyClassBody(loaded, b)
            IN  /\ classes' = SaveDoc(classes, c, doc, ModifiedPaths(loaded, doc))
                /\ resp' = Response("PATCH class", c, 200, "", "", "")
    /\ UNCHANGED <<collection, students, teachers, announcements, nextId, proc, disp>>

-----------------------------------------------------------------------------
(* Spec: one request at a time.  The handlers of one collection neither    *)
(* read nor write another collection, so each behaviour explores the       *)
(* requests of one collection.                                             *)

Init ==
    /\ collection \in {"students", "teachers", "classes"}
    /\ students = <<>>
    /\ teachers = <<>>
    /\ classes = <<>>
    /\ announcements = <<>>
    /\ nextId = [students |-> 0, teachers |-> 0, classes |-> 0, announcements |-> 0]
    /\ resp = NoResponse
    /\ proc = <<>>
    /\ disp = <<>>

Next ==
    \/ \E b \in StudentBodies : collection = "students" /\ PostStudent(b)
    \/ \E s \in StudentIds, b \in StudentBodies :
          collection = "students" /\ PatchStudent(s, b)
    \/ \E s \in StudentIds, b \in PaymentBodies :
          collection = "students" /\ AddPayment(s, b)
    \/ \E s \in StudentIds : collection = "students" /\ DeleteStudent(s)
    \/ \E b \in TeacherBodies : collection = "teachers" /\ PostTeacher(b)
    \/ \E t \in TeacherIds, b \in TeacherBodies :
          collection = "teachers" /\ PatchTeacher(t, b)
    \/ \E t \in TeacherIds : collection = "teachers" /\ DeleteTeacher(t)
    \/ collection = "classes" /\ InitClasses
    \/ \E c \in PatchedClassIds, b \in ClassBodies :
          collection = "classes" /\ PatchClass(c, b)

Spec == Init /\ [][Next]_vars

-----------------------------------------------------------------------------
(* ConcSpec: teacher requests suspended at every await.  A request in      *)
(* flight holds its position (pc), the document it works on (doc), the     *)
(* paths it has modified (mod) and the class it asks the strict rule about *)
(* (cls).  The synchronous code before an await runs in the step of the    *)
(* store access that precedes it.                                          *)

Procs == 1..NumProcs

\* The bodies of the interleaved requests: the bodies that carry every field
ConcTeacherBodies == {b \in FullTeacherBodies : b.name = Str("Ann")}

NoDoc == [name |-> "", subject |-> "", role |-> "", classTeacherClass |-> "", email |-> ""]

Idle == [pc |-> "idle", op |-> "", id |-> 0, doc |-> NoDoc, mod |-> {}, cls |-> ""]

InFlight(pc, op, id, doc, mod, cls) ==
    [pc |-> pc, op |-> op, id |-> id, doc |-> doc, mod |-> mod, cls |-> cls]

\* POST /api/teachers up to the await of findOne (when the rule is asked) or
\* of save (when it is not): the required-field check
PostTeacherBegin(p, b) ==
    /\ proc[p].pc = "idle"
    /\ IF TeacherFieldsMissing(b)
       THEN /\ resp' = Response("POST teacher", 0, 400, "missing", "", AskedClass(b))
            /\ UNCHANGED proc
       ELSE /\ proc' = [proc EXCEPT ![p] =
                  InFlight(IF NeedsCheck(b) THEN "find" ELSE "save", "POST", 0,
                           NewTeacher(b), {}, AskedClass(b))]
            /\ UNCHANGED resp
    /\ UNCHANGED <<collection, students, teachers, classes, announcements, nextId, disp>>

\* POST /api/teachers: const existing = await Teacher.findOne(...)
PostTeacherFind(p) ==
    /\ proc[p].pc = "find" /\ proc[p].op = "POST"
    /\ LET holders == ClassTeachersOf(teachers, proc[p].cls, 0)
       IN  IF holders # {}
           THEN /\ \E existing \in holders :
                     resp' = Response("POST teacher", 0, 400, "conflict",
                                      teachers[existing].name, proc[p].cls)
                /\ proc' = [proc EXCEPT ![p] = Idle]
           ELSE /\ proc' = [proc EXCEPT ![p].pc = "save"]
                /\ UNCHANGED resp
    /\ UNCHANGED <<collection, students, teachers, classes, announcements, nextId, disp>>

\* POST /api/teachers: const saved = await teacher.save()
PostTeacherSave(p) ==
    /\ proc[p].pc = "save" /\ proc[p].op = "POST"
    /\ nextId.teachers < MaxTeachers
    /\ LET id == nextId.teachers + 1
       IN  /\ teachers' = InsertDoc(teachers, id, proc[p].doc)
           /\ nextId' = [nextId EXCEPT !.teachers = id]
           /\ resp' = Response("POST teacher", id, 201, "", "", proc[p].cls)
    /\ proc' = [proc EXCEPT ![p] = Idle]
    /\ UNCHANGED <<collection, students, classes, announcements, disp>>

\* PATCH /api/teachers/:id: const teacher = await Teacher.findById(id), the
\* basic updates, and the branch of the strict rule that needs no query
PatchTeacherLoad(p, t, b) ==
    /\ proc[p].pc = "idle"
    /\ IF t \notin DOMAIN teachers
       THEN /\ resp' = Response("PATCH teacher", t, 404, "not found", "", AskedClass(b))
            /\ UNCHANGED proc
       ELSE LET loaded == teachers[t]
                doc == IF NeedsCheck(b) THEN ApplyTeacherBody(loaded, b)
                                        ELSE PatchedTeacher(loaded, b)
            IN  /\ proc' = [proc EXCEPT ![p] =
                      InFlight(IF NeedsCheck(b) THEN "find" ELSE "save", "PATCH", t,
                               doc, ModifiedPaths(loaded, doc), AskedClass(b))]
                /\ UNCHANGED resp
    /\ UNCHANGED <<collection, students, teachers, classes, announcements, nextId, disp>>

\* PATCH /api/teachers/:id: const existing = await Teacher.findOne(...), then
\* teacher.classTeacherClass = classTeacherClass
PatchTeacherFind(p) ==
    /\ proc[p].pc = "find" /\ proc[p].op = "PATCH"
    /\ LET holders == ClassTeachersOf(teachers, proc[p].cls, proc[p].id)
           loaded == proc[p].doc
           doc == [loaded EXCEPT !.classTeacherClass = proc[p].cls]
       IN  IF holders # {}
           THEN /\ \E existing \in holders :
                     resp' = Response("PATCH teacher", proc[p].id, 400, "conflict",
                                      teachers[existing].name, proc[p].cls)
                /\ proc' = [proc EXCEPT ![p] = Idle]
           ELSE /\ proc' = [proc EXCEPT ![p].pc = "save", ![p].doc = doc,
                                        ![p].mod = @ \cup ModifiedPaths(loaded, doc)]
                /\ UNCHANGED resp
    /\ UNCHANGED <<collection, students, teachers, classes, announcements, nextId, disp>>

\* PATCH /api/teachers/:id: const saved = await teacher.save().  save()
\* validates the document, then updates the stored one; it throws when the
\* document is invalid or no longer stored (the catch block answers 500).
PatchTeacherSave(p) ==
    /\ proc[p].pc = "save" /\ proc[p].op = "PATCH"
    /\ LET t == proc[p].id
       IN  IF ~ValidTeacher(proc[p].doc)
           THEN /\ resp' = Response("PATCH teacher", t, 500, "validation", "", proc[p].cls)
                /\ UNCHANGED teachers
           ELSE IF t \notin DOMAIN teachers
           THEN /\ resp' = Response("PATCH teacher", t, 500, "not stored", "", proc[p].cls)
                /\ UNCHANGED teachers
           ELSE /\ teachers' = SaveDoc(teachers, t, proc[p].doc, proc[p].mod)
                /\ resp' = Response("PATCH teacher", t, 200, "", "", proc[p].cls)
    /\ proc' = [proc EXCEPT ![p] = Idle]
    /\ UNCHANGED <<collection, students, classes, announcements, nextId, disp>>

ConcInit ==
    /\ collection = "teachers"
    /\ students = <<>>
    /\ teachers = <<>>
    /\ classes = <<>>
    /\ announcements = <<>>
    /\ nextId = [students |-> 0, teachers |-> 0, classes |-> 0, announcements |-> 0]
    /\ resp = NoResponse
    /\ proc = [p \in Procs |-> Idle]
    /\ disp = <<>>

ConcNext ==
    \/ \E p \in Procs, b \in ConcTeacherBodies : PostTeacherBegin(p, b)
    \/ \E p \in Procs : PostTeacherFind(p)
    \/ \E p \in Procs : PostTeacherSave(p)
    \/ \E p \in Procs, t \in TeacherIds, b \in ConcTeacherBodies : PatchTeacherLoad(p, t, b)
    \/ \E p \in Procs : PatchTeacherFind(p)
    \/ \E p \in Procs : PatchTeacherSave(p)
    \/ \E t \in TeacherIds : DeleteTeacher(t)

ConcSpec == ConcInit /\ [][ConcNext]_vars

-----------------------------------------------------------------------------
(* InitSpec: class requests, the initializer suspended at its two awaits   *)
(* (countDocuments and insertMany).                                        *)

\* POST /api/classes/init: const existing = await ClassModel.countDocuments()
InitClassesCount(p) ==
    /\ proc[p].pc = "idle"
    /\ IF Cardinality(DOMAIN classes) > 0
       THEN /\ resp' = Response("POST init", 0, 400, "initialized", "", "")
            /\ UNCHANGED proc
       ELSE /\ proc' = [proc EXCEPT ![p] = InFlight("insert", "INIT", 0, NoDoc, {}, "")]
            /\ UNCHANGED resp
    /\ UNCHANGED <<collection, students, teachers, classes, announcements, nextId, disp>>

\* POST /api/classes/init: const created = await ClassModel.insertMany(base)
InitClassesInsert(p) ==
    /\ proc[p].pc = "insert"
    /\ classes' = InsertBase(classes, nextId.classes)
    /\ nextId' = [nextId EXCEPT !.classes = @ + Len(BaseClasses)]
    /\ resp' = Response("POST init", 0, 201, "", "", "")
    /\ proc' = [proc EXCEPT ![p] = Idle]
    /\ UNCHANGED <<collection, students, teachers, announcements, disp>>

InitInit ==
    /\ collection = "classes"
    /\ students = <<>>
    /\ teachers = <<>>
    /\ classes = <<>>
    /\ announcements = <<>>
    /\ nextId = [students |-> 0, teachers |-> 0, classes |-> 0, announcements |-> 0]
    /\ resp = NoResponse
    /\ proc = [p \in Procs |-> Idle]
    /\ disp = <<>>

InitNext ==
    \/ \E p \in Procs : InitClassesCount(p)
    \/ \E p \in Procs : InitClassesInsert(p)
    \/ \E c \in PatchedClassIds, b \in ClassBodies : PatchClass(c, b)

InitSpec == InitInit /\ [][InitNext]_vars

-----------------------------------------------------------------------------
(* AnnSpec: announcement creation and the dispatcher it starts without     *)
(* awaiting.  A dispatcher run holds its position (pc), the announcement   *)
(* text, the teachers its query returned (queue) and the sends it has made *)
(* (sent), each with its outcome.                                          *)

AnnouncementIds == 1..MaxAnnouncements

AnnouncementBodies == [text : {Absent, Str(""), Str("School closed Friday")}]

\* The teacher requests served while dispatchers run
AnnTeacherBodies ==
    {b \in FullTeacherBodies :
        b.name = Str("Ann") /\ b.role = Str("Teacher") /\ b.classTeacherClass = Absent}

\* new Announcement({text})  (createdAt is not modelled)
NewAnnouncement(b) == [text |-> b.text.s]

\* Teacher.find({email: {$exists: true, $ne: ''}}), in the store's natural
\* (insertion) order
RECURSIVE TeachersWithEmail(_, _)
TeachersWithEmail(store, from) ==
    IF from > MaxTeachers THEN <<>>
    ELSE IF from \in DOMAIN store /\ store[from].email # ""
         THEN <<[teacher |-> from, email |-> store[from].email]>>
                \o TeachersWithEmail(store, from + 1)
         ELSE TeachersWithEmail(store, from + 1)

\* sendAnnouncementEmailToTeachers(saved.text), up to its first await
StartDispatch(text) ==
    [pc |-> "find", text |-> text, queue |-> <<>>, sent |-> <<>>]

\* Mutant of PostAnnouncement: the handler awaits the dispatcher, so the step
\* that stores the announcement does not answer yet
PostAnnouncementAwaitingDispatch(b) ==
    /\ nextId.announcements < MaxAnnouncements
    /\ LET id == nextId.announcements + 1
       IN  IF ~Truthy(b.text)
           THEN /\ resp' = Response("POST announcement", 0, 400, "missing", "", "")
                /\ UNCHANGED <<announcements, nextId, disp>>
           ELSE /\ announcements' = InsertDoc(announcements, id, NewAnnouncement(b))
                /\ nextId' = [nextId EXCEPT !.announcements = id]
                /\ disp' = InsertDoc(disp, id, StartDispatch(b.text.s))
                /\ UNCHANGED resp
    /\ UNCHANGED <<collection, students, teachers, classes, proc>>

\* POST /api/announcements
PostAnnouncement(b) ==
    /\ nextId.announcements < MaxAnnouncements
    /\ LET id == nextId.announcements + 1
       IN  IF ~Truthy(b.text)
           THEN /\ resp' = Response("POST announcement", 0, 400, "missing", "", "")
                /\ UNCHANGED <<announcements, nextId, disp>>
           ELSE /\ announcements' = InsertDoc(announcements, id, NewAnnouncement(b))
                /\ nextId' = [nextId EXCEPT !.announcements = id]
                /\ disp' = InsertDoc(disp, id, StartDispatch(b.text.s))
                /\ resp' = Response("POST announcement", id, 201, "", "", "")
    /\ UNCHANGED <<collection, students, teachers, classes, proc>>

\* sendAnnouncementEmailToTeachers: const teachers = await Teacher.find(...);
\* the query resolves (found) or rejects, and the catch block logs
DispatchFind(a, found) ==
    /\ a \in DOMAIN disp
    /\ disp[a].pc = "find"
    /\ LET list == TeachersWithEmail(teachers, 1)
       IN  disp' = [disp EXCEPT ![a] =
              IF ~found THEN [@ EXCEPT !.pc = "caught"]
              ELSE IF Len(list) = 0 THEN [@ EXCEPT !.pc = "returned"]
              ELSE [@ EXCEPT !.pc = "send", !.queue = list]]
    /\ UNCHANGED <<collection, students, teachers, classes, announcements, nextId, resp, proc>>

\* sendAnnouncementEmailToTeachers: one turn of the for loop,
\* await sgMail.send(msg).  The send resolves, rejects (the catch block
\* around the loop logs and the function returns) or never settles.
DispatchSend(a, outcome) ==
    /\ a \in DOMAIN disp
    /\ disp[a].pc = "send"
    /\ LET d == disp[a]
           teacher == d.queue[Len(d.sent) + 1]
           sent == Append(d.sent, [teacher |-> teacher.teacher, to |-> teacher.email,
                                   text |-> d.text, outcome |-> outcome])
       IN  disp' = [disp EXCEPT ![a] =
              [@ EXCEPT !.sent = sent,
                        !.pc = CASE outcome = "rejected" -> "caught"
                                 [] outcome = "pending" -> "hung"
                                 [] OTHER -> IF Len(sent) = Len(d.queue)
                                             THEN "returned" ELSE "send"]]
    /\ UNCHANGED <<collection, students, teachers, classes, announcements, nextId, resp, proc>>

AnnInit ==
    /\ collection = "announcements"
    /\ students = <<>>
    /\ teachers = <<>>
    /\ classes = <<>>
    /\ announcements = <<>>
    /\ nextId = [students |-> 0, teachers |-> 0, classes |-> 0, announcements |-> 0]
    /\ resp = NoResponse
    /\ proc = <<>>
    /\ disp = <<>>

AnnNext ==
    \/ \E b \in AnnouncementBodies : PostAnnouncement(b)
    \/ \E a \in AnnouncementIds, found \in BOOLEAN : DispatchFind(a, found)
    \/ \E a \in AnnouncementIds, outcome \in {"resolved", "rejected", "pending"} :
          DispatchSend(a, outcome)
    \/ \E b \in AnnTeacherBodies : PostTeacher(b)
    \/ \E t \in TeacherIds : DeleteTeacher(t)

AnnSpec == AnnInit /\ [][AnnNext]_vars

-----------------------------------------------------------------------------
(* PROPERTIES *)

\* No two stored teachers are class teacher of the same non-empty class
ExclusiveClassTeachers(store) ==
    \A t1, t2 \in DOMAIN store :
        (/\ t1 # t2
         /\ store[t1].role = ClassTeacher
         /\ store[t2].role = ClassTeacher
         /\ store[t1].classTeacherClass # "")
        => store[t1].classTeacherClass # store[t2].classTeacherClass

\* C1: with teacher creates and updates suspended at every store access and
\* interleaved, every non-empty class still has at most one stored teacher
\* with role "Class Teacher" (checked under ConcSpec).
C1_OneClassTeacherPerClass == ExclusiveClassTeachers(teachers)

\* C2: a teacher create with its required fields present, or an update of a
\* stored teacher t, that claims role "Class Teacher" and a non-empty class c
\* is answered 400 "conflict" exactly when a stored teacher other than t (any
\* stored teacher, for a create) is class teacher of c; the conflict names
\* such a teacher and leaves the teacher collection unchanged.
C2_ConflictIffHolder ==
    [][(/\ resp'.op \in {"POST teacher", "PATCH teacher"}
        /\ resp'.cls # ""
        /\ resp'.err \notin {"missing", "not found"})
       => LET self == IF resp'.op = "PATCH teacher" THEN resp'.id ELSE 0
              others == {t \in DOMAIN teachers :
                            /\ t # self
                            /\ teachers[t].role = ClassTeacher
                            /\ teachers[t].classTeacherClass = resp'.cls}
          IN  /\ (resp'.status = 400 /\ resp'.err = "conflict") <=> others # {}
              /\ resp'.err = "conflict"
                   => /\ teachers' = teachers
                      /\ \E t \in others : resp'.who = teachers[t].name
              /\ others = {} /\ resp'.status \in {200, 201}
                   => \E t \in DOMAIN teachers' :
                         /\ resp'.id = t
                         /\ teachers'[t].role = ClassTeacher
                         /\ teachers'[t].classTeacherClass = resp'.cls]_vars

\* C2 witness: an update was rejected with a conflict naming the holder
C2_Witness ==
    /\ resp.op = "PATCH teacher" /\ resp.status = 400 /\ resp.err = "conflict"
    /\ \E t \in DOMAIN teachers :
          /\ t # resp.id
          /\ teachers[t].name = resp.who
          /\ teachers[t].classTeacherClass = resp.cls

\* C3: every stored teacher whose role is not "Class Teacher" has an empty
\* classTeacherClass (checked under ConcSpec).
C3_NonClassTeacherHasNoClass ==
    \A t \in DOMAIN teachers :
        teachers[t].role # ClassTeacher => teachers[t].classTeacherClass = ""

\* C4: a successful PATCH on a student, teacher or class changes only the
\* fields the body carries with the correct primitive type; every other
\* field of the record, and every other record, is as before.
C4_PatchAppliesOnlyPresentFields ==
    [][/\ \A t \in TeacherIds, b \in TeacherBodies :
            (collection = "teachers" /\ PatchTeacher(t, b) /\ resp'.status = 200)
            => /\ \A f \in DOMAIN teachers[t] :
                    teachers'[t][f] # teachers[t][f] => IsString(b[f])
               /\ \A u \in DOMAIN teachers \ {t} : teachers'[u] = teachers[u]
       /\ \A s \in StudentIds, b \in StudentBodies :
            (collection = "students" /\ PatchStudent(s, b) /\ resp'.status = 200)
            => /\ students'[s].name # students[s].name => IsString(b.name)
               /\ students'[s].age # students[s].age => IsNumber(b.age)
               /\ students'[s].class # students[s].class => IsString(b.class)
               /\ students'[s].due # students[s].due => IsNumber(b.feesDue)
               /\ students'[s].payments = students[s].payments
               /\ \A u \in DOMAIN students \ {s} : students'[u] = students[u]
       /\ \A c \in PatchedClassIds, b \in ClassBodies :
            (collection = "classes" /\ PatchClass(c, b) /\ resp'.status = 200)
            => /\ classes'[c].name = classes[c].name
               /\ classes'[c].teacher # classes[c].teacher => IsString(b.teacher)
               /\ classes'[c].leader # classes[c].leader => IsString(b.leader)
               /\ \A u \in DOMAIN classes \ {c} : classes'[u] = classes[u]]_vars

\* C5: the class collection is empty or holds exactly the nine base names,
\* once each, whatever the interleaving of the initializer's count and
\* insert steps (checked under InitSpec).
C5_ClassesSeededOnce ==
    \/ DOMAIN classes = {}
    \/ /\ Cardinality(DOMAIN classes) = Len(BaseClasses)
       /\ \A i \in 1..Len(BaseClasses) :
             Cardinality({c \in DOMAIN classes : classes[c].name = BaseClasses[i]}) = 1

\* C6: a dispatcher run that has ended after reading the teacher list made
\* exactly one send attempt for every teacher on that list (checked under
\* AnnSpec).
C6_OneAttemptPerTeacher ==
    \A a \in DOMAIN disp :
        disp[a].pc \in {"returned", "caught"}
        => \A i \in 1..Len(disp[a].queue) :
              Cardinality({j \in 1..Len(disp[a].sent) :
                             disp[a].sent[j].teacher = disp[a].queue[i].teacher}) = 1

\* C7: a POST /api/announcements whose save succeeds is answered 201 in the
\* step that stores the announcement, before its dispatcher has read the
\* teachers or sent anything; no step of a dispatcher, whatever its outcome,
\* changes the response or the announcement collection; and a stored
\* announcement stays stored.
C7_ResponseIndependentOfDispatch ==
    [][/\ \A a \in DOMAIN announcements' \ DOMAIN announcements :
             /\ resp' = Response("POST announcement", a, 201, "", "", "")
             /\ a \in DOMAIN disp' \ DOMAIN disp
             /\ disp'[a].pc = "find" /\ disp'[a].sent = <<>>
             /\ disp'[a].text = announcements'[a].text
       /\ \A a \in DOMAIN disp :
             disp'[a] # disp[a] => resp' = resp /\ announcements' = announcements
       /\ \A a \in DOMAIN announcements :
             a \in DOMAIN announcements' /\ announcements'[a] = announcements[a]]_vars

\* C7 witness: the last response is the 201 of an announcement that is
\* stored, and its dispatcher's send was rejected or never settled
C7_Witness ==
    \E a \in DOMAIN disp :
        /\ resp = Response("POST announcement", a, 201, "", "", "")
        /\ a \in DOMAIN announcements
        /\ disp[a].pc \in {"caught", "hung"}
        /\ Len(disp[a].sent) > 0

C10_SequentialExclusive == ExclusiveClassTeachers(teachers)

\* C10 witness: two class teachers are stored, of different classes
C10_Witness ==
    \E t1, t2 \in DOMAIN teachers :
        /\ t1 # t2
        /\ teachers[t1].role = ClassTeacher /\ teachers[t2].role = ClassTeacher
        /\ teachers[t1].classTeacherClass = "Grade 1"
        /\ teachers[t2].classTeacherClass = "Grade 2"

=============================================================================
